---- MODULE Spec2Model ----
(***************************************************************************)
(* The event mailbox of the webhook relay (src/app.js, the server that     *)
(* starts at line 233): the notification queue with its dedupe key set,    *)
(* TTL sweep and capacity cap, the ticket cache that enriches thin         *)
(* NewMessage events, the reply set, and the HTTP routes that feed and     *)
(* drain them.                                                             *)
(*                                                                         *)
(* Strings are sequences of one-character strings, so that trim,           *)
(* toLowerCase, the digit filter, parseInt and the "|" join are computed   *)
(* character by character.  Event names, mode names and the like are only  *)
(* ever compared whole and are written as one-token sequences.  Null below *)
(* stands for JavaScript's null and undefined.                             *)
(***************************************************************************)
EXTENDS Integers, Sequences, FiniteSets, TLC

VARIABLES
    now,                  \* the wall clock read by Date.now() / nowIso()
    nextId,               \* number of records created so far (fresh ids)
    PYTHON_TOKEN,         \* process.env.PYTHON_TOKEN, fixed at start
    pendingReplies,       \* Set of normalized numbers
    pendingNotifications, \* Array of {id, created_at, delivered_at, summary, payload}
    notifSeenKeys,        \* Set of unique_key
    ticketCache,          \* Map ticketId -> context
    resp,                 \* the last step: its request, response and what the handler did
    everDelivered,        \* ids returned so far by non-peek queries
    TEKZAP,               \* TEKZAP_URL && TEKZAP_TOKEN, fixed at start
    inflight,             \* the POST handlers suspended at an await, by connection
    keyArgs               \* two argument records of makeUniqueKey and their keys

vars == <<now, nextId, PYTHON_TOKEN, pendingReplies, pendingNotifications,
          notifSeenKeys, ticketCache, resp, everDelivered, TEKZAP, inflight, keyArgs>>

\* What the synchronous routes and the clock leave alone
rest == <<TEKZAP, inflight, keyArgs>>

-----------------------------------------------------------------------------
(* Bounds of the model *)

MaxTime == 2
MaxPushes == 3
MaxInFlight == 2

(* Configuration (scaled down).  The clock counts hours. *)
NOTIF_MAX == 2
NOTIF_TTL_HOURS == 1

LIMIT_DEFAULT == 100
LIMIT_MAX == 500

-----------------------------------------------------------------------------
(* JavaScript values *)

Null == <<"<null>">>

Falsy(s) == s = Null \/ s = <<>>

\* a || b
Or(a, b) == IF Falsy(a) THEN b ELSE a

\* a ?? b
Nullish(a, b) == IF a = Null THEN b ELSE a

IsDigit(c) == c \in {"0", "1", "2", "3", "4", "5", "6", "7", "8", "9"}

IsSpace(c) == c \in {" "}

DigitVal(c) ==
    CASE c = "0" -> 0 [] c = "1" -> 1 [] c = "2" -> 2 [] c = "3" -> 3
      [] c = "4" -> 4 [] c = "5" -> 5 [] c = "6" -> 6 [] c = "7" -> 7
      [] c = "8" -> 8 [] c = "9" -> 9

DigitChar(d) ==
    CASE d = 0 -> "0" [] d = 1 -> "1" [] d = 2 -> "2" [] d = 3 -> "3"
      [] d = 4 -> "4" [] d = 5 -> "5" [] d = 6 -> "6" [] d = 7 -> "7"
      [] d = 8 -> "8" [] d = 9 -> "9"

LowerChar(c) ==
    CASE c = "A" -> "a" [] c = "B" -> "b" [] c = "X" -> "x" [] OTHER -> c

RECURSIVE TrimStart(_)
TrimStart(s) ==
    IF s # <<>> /\ IsSpace(Head(s)) THEN TrimStart(Tail(s)) ELSE s

RECURSIVE TrimEnd(_)
TrimEnd(s) ==
    IF s # <<>> /\ IsSpace(s[Len(s)]) THEN TrimEnd(SubSeq(s, 1, Len(s) - 1)) ELSE s

Trim(s) == TrimEnd(TrimStart(s))

ToLowerCase(s) == [i \in 1..Len(s) |-> LowerChar(s[i])]

\* Numbers: NaN or an integer
NaN == [nan |-> TRUE, n |-> 0]

Num(k) == [nan |-> FALSE, n |-> k]

RECURSIVE ParseDigits(_, _)
ParseDigits(s, acc) ==
    IF s # <<>> /\ IsDigit(Head(s))
    THEN ParseDigits(Tail(s), 10 * acc + DigitVal(Head(s)))
    ELSE acc

\* parseInt(s, 10): leading blanks, an optional sign, the longest digit prefix
parseInt(s) ==
    LET t == TrimStart(s)
        neg == t # <<>> /\ Head(t) = "-"
        u == IF t # <<>> /\ Head(t) \in {"-", "+"} THEN Tail(t) ELSE t
    IN IF u = <<>> \/ ~IsDigit(Head(u)) THEN NaN
       ELSE Num(IF neg THEN 0 - ParseDigits(u, 0) ELSE ParseDigits(u, 0))

\* Math.min / Math.max: NaN if either argument is NaN
MathMin(a, b) ==
    IF a.nan \/ b.nan THEN NaN ELSE IF a.n <= b.n THEN a ELSE b

MathMax(a, b) ==
    IF a.nan \/ b.nan THEN NaN ELSE IF a.n >= b.n THEN a ELSE b

RECURSIVE NatToString(_)
NatToString(k) ==
    IF k < 10 THEN <<DigitChar(k)>>
    ELSE NatToString(k \div 10) \o <<DigitChar(k % 10)>>

\* String(number)
NumToString(x) ==
    IF x.nan THEN <<"NaN">>
    ELSE IF x.n < 0 THEN <<"-">> \o NatToString(0 - x.n) ELSE NatToString(x.n)

\* Mutant: the slice keeps the tail of the array
Slice_Oldest(items, limit) ==
    LET e == IF limit.nan THEN 0
             ELSE IF limit.n < 0 THEN Len(items) + limit.n
             ELSE limit.n
        k == IF e < 0 THEN 0 ELSE IF e > Len(items) THEN Len(items) ELSE e
    IN SubSeq(items, Len(items) - k + 1, Len(items))

\* items.slice(0, limit): a NaN end is 0
Slice(items, limit) ==
    LET e == IF limit.nan THEN 0
             ELSE IF limit.n < 0 THEN Len(items) + limit.n
             ELSE limit.n
        k == IF e < 0 THEN 0 ELSE IF e > Len(items) THEN Len(items) ELSE e
    IN SubSeq(items, 1, k)

-----------------------------------------------------------------------------
(* Helper functions of app.js *)

normalizeNumber(n) ==
    IF Falsy(n) THEN Null ELSE SelectSeq(n, IsDigit)

safeLower(s) == ToLowerCase(Trim(Or(s, <<>>)))

Join5(a, b, c, d, e) ==
    a \o <<"|">> \o b \o <<"|">> \o c \o <<"|">> \o d \o <<"|">> \o e

makeUniqueKey(event, tenantId, ticketId, messageId, sourceTs) ==
    Join5(Or(event, <<"e", "v", "t">>),
          Nullish(tenantId, <<"t">>),
          Nullish(ticketId, <<"t", "k">>),
          Nullish(messageId, <<"m", "i", "d">>),
          Nullish(sourceTs, <<"t", "s">>))

-----------------------------------------------------------------------------
(* The notification queue *)

NotDelivered == <<>>

UniqueKeyOf(n) == n.summary.unique_key

KeysOf(list) == {UniqueKeyOf(list[i]) : i \in 1..Len(list)} \ {Null, <<>>}

IdsOf(list) == {list[i].id : i \in 1..Len(list)}

\* Mutant: the cutoff one hour late
NotExpired_Late(n, t) == n.created_at >= t - NOTIF_TTL_HOURS - 1

\* The records of cleanupNotifications' `kept`: t >= cutoff
NotExpired(n, t) == n.created_at >= t - NOTIF_TTL_HOURS

\* Mutant: the keys of the removed records stay in the set
cleanupNotifications_KeepsKeys(list, seen, t) ==
    [list |-> SelectSeq(list, LAMBDA n : NotExpired(n, t)), seen |-> seen]

cleanupNotifications(list, seen, t) ==
    LET kept == SelectSeq(list, LAMBDA n : NotExpired(n, t))
        gone == SelectSeq(list, LAMBDA n : ~NotExpired(n, t))
    IN [list |-> kept, seen |-> seen \ KeysOf(gone)]

\* Mutant: no check of notifSeenKeys
pushNotification_NoDedupe(list, seen, summary, payload, t, id) ==
    LET unique_key == summary.unique_key
        item == [id |-> id, created_at |-> t, delivered_at |-> NotDelivered,
                 summary |-> summary, payload |-> payload]
        l1 == <<item>> \o list
        s1 == IF ~Falsy(unique_key) THEN seen \cup {unique_key} ELSE seen
        removed == IF Len(l1) > NOTIF_MAX
                   THEN SubSeq(l1, NOTIF_MAX + 1, Len(l1)) ELSE <<>>
        l2 == IF Len(l1) > NOTIF_MAX THEN SubSeq(l1, 1, NOTIF_MAX) ELSE l1
    IN [list |-> l2, seen |-> s1 \ KeysOf(removed), created |-> TRUE,
        dropped |-> IdsOf(removed), returned |-> "undefined"]

\* Mutant: the cap splices off the head (the newest records)
pushNotification_EvictNewest(list, seen, summary, payload, t, id) ==
    LET unique_key == summary.unique_key
    IN IF ~Falsy(unique_key) /\ unique_key \in seen
       THEN [list |-> list, seen |-> seen, created |-> FALSE, dropped |-> {},
             returned |-> "undefined"]
       ELSE LET item == [id |-> id, created_at |-> t, delivered_at |-> NotDelivered,
                         summary |-> summary, payload |-> payload]
                l1 == <<item>> \o list
                s1 == IF ~Falsy(unique_key) THEN seen \cup {unique_key} ELSE seen
                removed == IF Len(l1) > NOTIF_MAX
                           THEN SubSeq(l1, 1, Len(l1) - NOTIF_MAX) ELSE <<>>
                l2 == IF Len(l1) > NOTIF_MAX
                      THEN SubSeq(l1, Len(l1) - NOTIF_MAX + 1, Len(l1)) ELSE l1
            IN [list |-> l2, seen |-> s1 \ KeysOf(removed), created |-> TRUE,
                dropped |-> IdsOf(removed), returned |-> "undefined"]

\* The result: the new array and key set; `created` tells whether an item was
\* built (the id counter advanced), `dropped` the ids the cap spliced off.
\* The function itself returns undefined on both paths.
pushNotification(list, seen, summary, payload, t, id) ==
    LET unique_key == summary.unique_key
    IN IF ~Falsy(unique_key) /\ unique_key \in seen
       THEN [list |-> list, seen |-> seen, created |-> FALSE, dropped |-> {},
             returned |-> "undefined"]
       ELSE LET item == [id |-> id, created_at |-> t, delivered_at |-> NotDelivered,
                         summary |-> summary, payload |-> payload]
                l1 == <<item>> \o list
                s1 == IF ~Falsy(unique_key) THEN seen \cup {unique_key} ELSE seen
                removed == IF Len(l1) > NOTIF_MAX
                           THEN SubSeq(l1, NOTIF_MAX + 1, Len(l1)) ELSE <<>>
                l2 == IF Len(l1) > NOTIF_MAX THEN SubSeq(l1, 1, NOTIF_MAX) ELSE l1
            IN [list |-> l2, seen |-> s1 \ KeysOf(removed), created |-> TRUE,
                dropped |-> IdsOf(removed), returned |-> "undefined"]

-----------------------------------------------------------------------------
(* Webhook bodies.  A body carries, of every `a || b || c` chain of the    *)
(* handler, the first alternative only (message.number, ticket.updatedAt,  *)
(* message.msgCreatedAt, message.id); the fields it lacks are undefined.   *)
(* entry[].changes[].value.messages[] of a Meta body is the flat list      *)
(* `messages` of the `from` values, in iteration order.                    *)

NoTicket ==
    [present |-> FALSE, id |-> Null, tenantId |-> Null, user_email |-> Null,
     unread |-> FALSE, unreadMessages |-> 0, updatedAt |-> Null,
     contact_name |-> Null, contact_number |-> Null,
     queue_name |-> Null, queue_id |-> Null]

NoMessage ==
    [present |-> FALSE, fromMe |-> TRUE, number |-> Null, tenantId |-> Null,
     ticketId |-> Null, id |-> Null, msgCreatedAt |-> Null]

EmptyBody ==
    [event_type |-> Null, event |-> Null, tenantId |-> Null,
     ticket |-> NoTicket, message |-> NoMessage, object |-> Null, messages |-> <<>>]

ticketEvents ==
    {<<"TransferOfTicket">>, <<"NewTicket">>, <<"StartedTicket">>, <<"UpdateOnTicket">>,
     <<"FinishedTicket">>, <<"FinishedTicketHistoricMessages">>}

extractTekzapInboundNumber(content) ==
    LET msg == content.message
    IN IF ~msg.present THEN Null
       ELSE LET number == IF Falsy(msg.number) /\ content.ticket.present
                                /\ ~Falsy(content.ticket.contact_number)
                          THEN content.ticket.contact_number
                          ELSE msg.number
            IN normalizeNumber(number)

NoContext ==
    [present |-> FALSE, user_email |-> Null, is_pending |-> FALSE,
     contact_name |-> Null, contact_number |-> Null,
     queue_name |-> Null, queue_id |-> Null]

\* ticketCache.get(ticketId) || {}
CacheGet(cache, ticketId) ==
    IF ticketId \in DOMAIN cache THEN cache[ticketId] ELSE NoContext

\* ticketCache.set(key, value)
CacheSet(cache, key, value) ==
    [k \in DOMAIN cache \cup {key} |-> IF k = key THEN value ELSE cache[k]]

-----------------------------------------------------------------------------
(* processWebhook *)

TicketTenant(content) ==
    Nullish(content.tenantId, Nullish(content.ticket.tenantId, Null))

TicketUserEmail(t) ==
    IF ~Falsy(t.user_email) THEN safeLower(t.user_email) ELSE Null

\* Mutant: every UpdateOnTicket passes the filter
UnreadFlag_Always(t) == TRUE

\* t.unread === true || (t.unreadMessages || 0) > 0
UnreadFlag(t) == t.unread = TRUE \/ t.unreadMessages > 0

\* The value of ticketCache.set(String(t.id), {...})
TicketContext(t) ==
    [present |-> TRUE,
     user_email |-> TicketUserEmail(t),
     is_pending |-> Falsy(TicketUserEmail(t)),
     contact_name |-> Or(t.contact_name, Null),
     contact_number |-> normalizeNumber(t.contact_number),
     queue_name |-> Or(t.queue_name, Null),
     queue_id |-> Or(t.queue_id, Null)]

\* Mutant: no ticket event is pending
TicketSummary_NeverPending(content) ==
    LET t == content.ticket
        sourceTs == Or(t.updatedAt, Null)
    IN [unique_key |-> makeUniqueKey(content.event, TicketTenant(content), t.id,
                                     Null, sourceTs),
        tenant_id |-> TicketTenant(content),
        event |-> content.event,
        ticket_id |-> Nullish(t.id, Null),
        user_email |-> TicketUserEmail(t),
        is_pending |-> FALSE,
        queue_id |-> Nullish(t.queue_id, Null),
        queue_name |-> Nullish(t.queue_name, Null),
        contact_name |-> Nullish(t.contact_name, Null),
        contact_number |-> normalizeNumber(t.contact_number),
        unread |-> (t.unread = TRUE),
        unread_messages |-> t.unreadMessages,
        source_timestamp |-> sourceTs]

\* The summary pushed for an event with a full ticket
TicketSummary(content) ==
    LET t == content.ticket
        sourceTs == Or(t.updatedAt, Null)
    IN [unique_key |-> makeUniqueKey(content.event, TicketTenant(content), t.id,
                                     Null, sourceTs),
        tenant_id |-> TicketTenant(content),
        event |-> content.event,
        ticket_id |-> Nullish(t.id, Null),
        user_email |-> TicketUserEmail(t),
        is_pending |-> Falsy(TicketUserEmail(t)),
        queue_id |-> Nullish(t.queue_id, Null),
        queue_name |-> Nullish(t.queue_name, Null),
        contact_name |-> Nullish(t.contact_name, Null),
        contact_number |-> normalizeNumber(t.contact_number),
        unread |-> (t.unread = TRUE),
        unread_messages |-> t.unreadMessages,
        source_timestamp |-> sourceTs]

\* The summary pushed for an inbound NewMessage, enriched from the cache
MessageSummary(content, cache) ==
    LET msg == content.message
        tenantId == Nullish(content.tenantId, Nullish(msg.tenantId, Null))
        ticketId == msg.ticketId
        cached == IF ~Falsy(ticketId) THEN CacheGet(cache, ticketId) ELSE NoContext
        sourceTs == Or(msg.msgCreatedAt, Null)
        messageId == Or(msg.id, Null)
    IN [unique_key |-> makeUniqueKey(<<"NewMessage">>, tenantId, ticketId,
                                     messageId, sourceTs),
        tenant_id |-> tenantId,
        event |-> <<"NewMessage">>,
        ticket_id |-> IF ~Falsy(ticketId) THEN NumToString(parseInt(ticketId)) ELSE Null,
        user_email |-> Or(cached.user_email, Null),
        is_pending |-> (cached.is_pending = TRUE \/ Falsy(cached.user_email)),
        queue_id |-> Or(cached.queue_id, Null),
        queue_name |-> Or(cached.queue_name, Null),
        contact_name |-> Or(cached.contact_name, Null),
        contact_number |-> Or(cached.contact_number, extractTekzapInboundNumber(content)),
        unread |-> TRUE,
        unread_messages |-> 1,
        source_timestamp |-> sourceTs]

\* What a handler run leaves when it pushes nothing
NoPush(replies, list, seen, cache) ==
    [replies |-> replies, list |-> list, seen |-> seen, cache |-> cache,
     created |-> FALSE, dropped |-> {}, returned |-> "none",
     key |-> Null, seenBefore |-> FALSE]

\* A handler run that calls pushNotification(summary, content)
WithPush(replies, list, seen, cache, summary, content, t, id) ==
    LET p == pushNotification(list, seen, summary, content, t, id)
    IN [replies |-> replies, list |-> p.list, seen |-> p.seen, cache |-> cache,
        created |-> p.created, dropped |-> p.dropped, returned |-> p.returned,
        key |-> summary.unique_key, seenBefore |-> summary.unique_key \in seen]

\* Mutant: a NewMessage is a notification only, never a reply
TekzapReplies_Never(content, replies) == replies

\* 1A) the reply set after a Tekzap event
TekzapReplies(content, replies) ==
    LET number == extractTekzapInboundNumber(content)
    IN IF content.event = <<"NewMessage">> /\ content.message.present
          /\ content.message.fromMe = FALSE /\ ~Falsy(number)
       THEN replies \cup {number}
       ELSE replies

\* An element of messages[] that is null: reading msg.from raises a TypeError
Throws == <<"<throw>">>

\* 2) the reply set after a Meta body: every msg.from that is truthy, up to
\* the element that raises (the catch of processWebhook ends the run there)
RECURSIVE MetaReplies(_, _)
MetaReplies(messages, replies) ==
    IF messages = <<>> \/ Head(messages) = Throws THEN replies
    ELSE MetaReplies(Tail(messages),
                     IF ~Falsy(Head(messages))
                     THEN replies \cup {SelectSeq(Head(messages), IsDigit)}
                     ELSE replies)

processWebhook(content, replies, list, seen, cache, t, id) ==
    IF ~Falsy(content.event)
    THEN LET r1 == TekzapReplies(content, replies)
         IN IF content.event \in ticketEvents /\ content.ticket.present
            THEN IF content.event = <<"UpdateOnTicket">> /\ ~UnreadFlag(content.ticket)
                 THEN NoPush(r1, list, seen, cache)
                 ELSE LET c1 == IF content.ticket.id # Null
                                THEN CacheSet(cache, content.ticket.id,
                                              TicketContext(content.ticket))
                                ELSE cache
                      IN WithPush(r1, list, seen, c1, TicketSummary(content),
                                  content, t, id)
            ELSE IF content.event = <<"NewMessage">> /\ content.message.present
                    /\ content.message.fromMe = FALSE
                 THEN WithPush(r1, list, seen, cache, MessageSummary(content, cache),
                               content, t, id)
                 ELSE NoPush(r1, list, seen, cache)
    ELSE IF ~Falsy(content.object)
         THEN NoPush(MetaReplies(content.messages, replies), list, seen, cache)
         ELSE NoPush(replies, list, seen, cache)

-----------------------------------------------------------------------------
(* GET /check-notifications *)

NoReq ==
    [authorization |-> Null, x_auth_token |-> Null, token |-> Null,
     user_email |-> Null, mode |-> Null, limit |-> Null, peek |-> Null]

\* Mutant: any of the three credentials may match
requirePythonToken_AnyCredential(req, secret) ==
    IF Falsy(secret) THEN TRUE
    ELSE LET auth == Or(req.authorization, <<>>)
             x == Or(req.x_auth_token, <<>>)
             q == Or(req.token, <<>>)
             bearer == IF auth # <<>> /\ Head(auth) = "Bearer "
                       THEN Trim(Tail(auth)) ELSE <<>>
         IN secret \in {bearer, x, q}

\* requirePythonToken: TRUE when next() is called, FALSE when 401 is sent
requirePythonToken(req, secret) ==
    IF Falsy(secret) THEN TRUE
    ELSE LET auth == Or(req.authorization, <<>>)
             x == Or(req.x_auth_token, <<>>)
             q == Or(req.token, <<>>)
             bearer == IF auth # <<>> /\ Head(auth) = "Bearer "
                       THEN Trim(Tail(auth)) ELSE <<>>
             provided == Or(bearer, Or(x, q))
         IN ~Falsy(provided) /\ provided = secret

QueryLimit(req) ==
    MathMax(Num(1),
            MathMin(parseInt(Or(req.limit, NatToString(LIMIT_DEFAULT))), Num(LIMIT_MAX)))

\* Mutant: the peek flag is ignored
QueryPeek_Never(req) == FALSE

QueryPeek(req) == req.peek = <<"1">> \/ req.peek = <<"true">>

\* Mutant: mode my forgets the pending records
ModeFilter_MineOnly(items, mode, userEmail) ==
    IF mode = <<"pending">>
    THEN SelectSeq(items, LAMBDA n : n.summary.is_pending = TRUE)
    ELSE IF mode = <<"my">>
         THEN IF ~Falsy(userEmail)
              THEN SelectSeq(items, LAMBDA n : safeLower(n.summary.user_email) = userEmail)
              ELSE items
         ELSE items

\* The mode filter of the route, applied to the undelivered records
ModeFilter(items, mode, userEmail) ==
    IF mode = <<"pending">>
    THEN SelectSeq(items, LAMBDA n : n.summary.is_pending = TRUE)
    ELSE IF mode = <<"my">>
         THEN IF ~Falsy(userEmail)
              THEN SelectSeq(items, LAMBDA n : n.summary.is_pending = TRUE
                                        \/ safeLower(n.summary.user_email) = userEmail)
              ELSE items
         ELSE items

\* The items the route returns from the (already cleaned) array
QueryItems(list, req) ==
    LET userEmail == safeLower(req.user_email)
        mode == Or(req.mode, <<"my">>)
        undelivered == SelectSeq(list, LAMBDA n : n.delivered_at = NotDelivered)
    IN Slice(ModeFilter(undelivered, mode, userEmail), QueryLimit(req))

\* Mutant: nothing is stamped
MarkDelivered_Nothing(list, ids, t) == list

\* for (const n of items) n.delivered_at = deliveredAt
MarkDelivered(list, ids, t) ==
    [i \in 1..Len(list) |->
        IF list[i].id \in ids THEN [list[i] EXCEPT !.delivered_at = <<t>>] ELSE list[i]]

-----------------------------------------------------------------------------
(* The last step, kept for the properties *)

NoRun ==
    [created |-> FALSE, dropped |-> {}, returned |-> "none", key |-> Null,
     seenBefore |-> FALSE]

NoResp ==
    [op |-> "start", status |-> 0, req |-> NoReq, body |-> EmptyBody, items |-> <<>>,
     delivered_at |-> <<>>, run |-> NoRun, numbers |-> {}, count |-> 0,
     notify |-> "none"]

SeqIds(list) == [i \in 1..Len(list) |-> list[i].id]

-----------------------------------------------------------------------------
(* Initial state and steps *)

Secret == <<"s">>

\* A connection with no request in progress
Idle ==
    [stage |-> "idle", op |-> "none", body |-> EmptyBody, run |-> NoRun,
     notify |-> "none"]

Conns == 1..MaxInFlight

NoKeyArgs ==
    [event |-> Null, tenantId |-> Null, ticketId |-> Null, messageId |-> Null,
     sourceTs |-> Null]

NoKeys == [a |-> NoKeyArgs, b |-> NoKeyArgs, ka |-> Null, kb |-> Null]

InitOf(tokens, tekzap, args) ==
    /\ now = 0
    /\ nextId = 0
    /\ PYTHON_TOKEN \in tokens
    /\ TEKZAP \in tekzap
    /\ inflight = [c \in Conns |-> Idle]
    /\ keyArgs \in args
    /\ pendingReplies = {}
    /\ pendingNotifications = <<>>
    /\ notifSeenKeys = {}
    /\ ticketCache = <<>>
    /\ resp = NoResp
    /\ everDelivered = {}

\* The start with TEKZAP_URL and TEKZAP_TOKEN at their default, ''
InitWith(tokens) == InitOf(tokens, {FALSE}, {NoKeys})

\* The clock advances
Tick ==
    /\ now < MaxTime
    /\ now' = now + 1
    /\ resp' = [NoResp EXCEPT !.op = "tick"]
    /\ UNCHANGED <<nextId, PYTHON_TOKEN, pendingReplies, pendingNotifications,
                   notifSeenKeys, ticketCache, everDelivered, rest>>

\* Mutant: the sweeper drops the delivered records only
Sweeper_DeliveredOnly ==
    LET kept == SelectSeq(pendingNotifications,
                          LAMBDA n : NotExpired(n, now) \/ n.delivered_at = NotDelivered)
        gone == SelectSeq(pendingNotifications,
                          LAMBDA n : ~(NotExpired(n, now) \/ n.delivered_at = NotDelivered))
    IN /\ pendingNotifications' = kept
       /\ notifSeenKeys' = notifSeenKeys \ KeysOf(gone)
       /\ resp' = [NoResp EXCEPT !.op = "sweep"]
       /\ UNCHANGED <<now, nextId, PYTHON_TOKEN, pendingReplies, ticketCache,
                      everDelivered, rest>>

\* The setInterval callback
Sweeper ==
    LET c == cleanupNotifications(pendingNotifications, notifSeenKeys, now)
    IN /\ pendingNotifications' = c.list
       /\ notifSeenKeys' = c.seen
       /\ resp' = [NoResp EXCEPT !.op = "sweep"]
       /\ UNCHANGED <<now, nextId, PYTHON_TOKEN, pendingReplies, ticketCache,
                      everDelivered, rest>>

\* The state and response after `await processWebhook(req.body)`
Ingest(op, body) ==
    LET r == processWebhook(body, pendingReplies, pendingNotifications, notifSeenKeys,
                            ticketCache, now, nextId + 1)
    IN /\ r.created => nextId < MaxPushes
       /\ pendingReplies' = r.replies
       /\ pendingNotifications' = r.list
       /\ notifSeenKeys' = r.seen
       /\ ticketCache' = r.cache
       /\ nextId' = IF r.created THEN nextId + 1 ELSE nextId
       /\ resp' = [NoResp EXCEPT !.op = op, !.status = 200, !.body = body,
                                 !.run = [created |-> r.created, dropped |-> r.dropped,
                                          returned |-> r.returned, key |-> r.key,
                                          seenBefore |-> r.seenBefore]]
       /\ UNCHANGED <<now, PYTHON_TOKEN, everDelivered, rest>>

\* POST /
PostRoot(body) ==
    IF body.event_type = <<"message_sent">>
    THEN /\ resp' = [NoResp EXCEPT !.op = "post /", !.status = 200, !.body = body]
         /\ UNCHANGED <<now, nextId, PYTHON_TOKEN, pendingReplies, pendingNotifications,
                        notifSeenKeys, ticketCache, everDelivered, rest>>
    ELSE Ingest("post /", body)

\* POST /webhook
PostWebhook(body) == Ingest("post /webhook", body)

\* GET /check-notifications
CheckNotifications(req) ==
    IF ~requirePythonToken(req, PYTHON_TOKEN)
    THEN /\ resp' = [NoResp EXCEPT !.op = "check-notifications", !.status = 401,
                                   !.req = req]
         /\ UNCHANGED <<now, nextId, PYTHON_TOKEN, pendingReplies, pendingNotifications,
                        notifSeenKeys, ticketCache, everDelivered, rest>>
    ELSE LET c == cleanupNotifications(pendingNotifications, notifSeenKeys, now)
             items == QueryItems(c.list, req)
             peek == QueryPeek(req)
         IN /\ pendingNotifications' =
                   IF peek THEN c.list ELSE MarkDelivered(c.list, IdsOf(items), now)
            /\ notifSeenKeys' = c.seen
            /\ everDelivered' = IF peek THEN everDelivered
                                ELSE everDelivered \cup IdsOf(items)
            /\ resp' = [NoResp EXCEPT !.op = "check-notifications", !.status = 200,
                                      !.req = req, !.items = SeqIds(items),
                                      !.count = Len(items),
                                      !.delivered_at = IF peek THEN <<>> ELSE <<now>>]
            /\ UNCHANGED <<now, nextId, PYTHON_TOKEN, pendingReplies, ticketCache, rest>>

\* Mutant: the drain forgets to clear the set
CheckReplies_KeepsSet ==
    /\ resp' = [NoResp EXCEPT !.op = "check-replies", !.status = 200,
                              !.numbers = pendingReplies,
                              !.count = Cardinality(pendingReplies)]
    /\ UNCHANGED <<now, nextId, PYTHON_TOKEN, pendingReplies, pendingNotifications,
                   notifSeenKeys, ticketCache, everDelivered, rest>>

\* GET /check-replies
CheckReplies ==
    /\ pendingReplies' = {}
    /\ resp' = [NoResp EXCEPT !.op = "check-replies", !.status = 200,
                              !.numbers = pendingReplies,
                              !.count = Cardinality(pendingReplies)]
    /\ UNCHANGED <<now, nextId, PYTHON_TOKEN, pendingNotifications, notifSeenKeys,
                   ticketCache, everDelivered, rest>>

\* GET /health
Health ==
    /\ resp' = [NoResp EXCEPT !.op = "health", !.status = 200,
                  !.count = Len(SelectSeq(pendingNotifications,
                                          LAMBDA n : n.delivered_at = NotDelivered))]
    /\ UNCHANGED <<now, nextId, PYTHON_TOKEN, pendingReplies, pendingNotifications,
                   notifSeenKeys, ticketCache, everDelivered, rest>>

\* The store as one value
Mailbox == <<pendingReplies, pendingNotifications, notifSeenKeys, ticketCache>>

\* Mutant: pushNotification awaits between its seen-key check and its insert,
\* so the check does not see the keys of the handlers that are suspended
Receive_StaleCheck(c, op, body) ==
    /\ inflight[c].stage = "idle"
    /\ LET held == {inflight[d].run.key : d \in Conns}
           r == processWebhook(body, pendingReplies, pendingNotifications,
                               notifSeenKeys \ held, ticketCache, now, nextId + 1)
       IN /\ r.created => nextId < MaxPushes
          /\ pendingReplies' = r.replies
          /\ pendingNotifications' = r.list
          /\ notifSeenKeys' = r.seen \cup notifSeenKeys
          /\ ticketCache' = r.cache
          /\ nextId' = IF r.created THEN nextId + 1 ELSE nextId
          /\ inflight' = [inflight EXCEPT ![c] =
                [stage |-> "responding", op |-> op, body |-> body,
                 run |-> [created |-> r.created, dropped |-> r.dropped,
                          returned |-> r.returned, key |-> r.key,
                          seenBefore |-> r.seenBefore],
                 notify |-> "none"]]
    /\ resp' = [NoResp EXCEPT !.op = "receive", !.body = body]
    /\ UNCHANGED <<now, PYTHON_TOKEN, TEKZAP, everDelivered, keyArgs>>

\* A POST arrives on connection c and its handler runs up to its first await:
\* `await notifyTekzap(...)` for a message_sent body on /, which is suspended
\* at axios.post when Tekzap is configured, `await processWebhook(req.body)`
\* otherwise, where processWebhook has run to its end (it contains no await)
Receive(c, op, body) ==
    /\ inflight[c].stage = "idle"
    /\ IF op = "post /" /\ body.event_type = <<"message_sent">>
       THEN /\ inflight' = [inflight EXCEPT ![c] =
                    [stage |-> IF TEKZAP THEN "notifying" ELSE "responding",
                     op |-> op, body |-> body, run |-> NoRun, notify |-> "none"]]
            /\ UNCHANGED <<Mailbox, nextId>>
       ELSE LET r == processWebhook(body, pendingReplies, pendingNotifications,
                                    notifSeenKeys, ticketCache, now, nextId + 1)
            IN /\ r.created => nextId < MaxPushes
               /\ pendingReplies' = r.replies
               /\ pendingNotifications' = r.list
               /\ notifSeenKeys' = r.seen
               /\ ticketCache' = r.cache
               /\ nextId' = IF r.created THEN nextId + 1 ELSE nextId
               /\ inflight' = [inflight EXCEPT ![c] =
                     [stage |-> "responding", op |-> op, body |-> body,
                      run |-> [created |-> r.created, dropped |-> r.dropped,
                               returned |-> r.returned, key |-> r.key,
                               seenBefore |-> r.seenBefore],
                      notify |-> "none"]]
    /\ resp' = [NoResp EXCEPT !.op = "receive", !.body = body]
    /\ UNCHANGED <<now, PYTHON_TOKEN, TEKZAP, everDelivered, keyArgs>>

\* How axios.post(TEKZAP_URL, ..., {timeout: 15000}) can end
Outcomes == {"sent", "failed", "timeout"}

\* Mutant: no try/catch around axios.post, a rejection ends the handler
NotifySettles_NoCatch(c, outcome) ==
    /\ inflight[c].stage = "notifying"
    /\ inflight' = [inflight EXCEPT
                      ![c].stage = IF outcome = "sent" THEN "responding" ELSE "rejected",
                      ![c].notify = outcome]
    /\ resp' = [NoResp EXCEPT !.op = "settle", !.body = inflight[c].body]
    /\ UNCHANGED <<now, nextId, PYTHON_TOKEN, TEKZAP, Mailbox, everDelivered, keyArgs>>

\* The outbound call of notifyTekzap ends; its try/catch only logs
NotifySettles(c, outcome) ==
    /\ inflight[c].stage = "notifying"
    /\ inflight' = [inflight EXCEPT ![c].stage = "responding", ![c].notify = outcome]
    /\ resp' = [NoResp EXCEPT !.op = "settle", !.body = inflight[c].body]
    /\ UNCHANGED <<now, nextId, PYTHON_TOKEN, TEKZAP, Mailbox, everDelivered, keyArgs>>

\* The handler resumes after its await and sends the response
Respond(c) ==
    /\ inflight[c].stage = "responding"
    /\ resp' = [NoResp EXCEPT !.op = inflight[c].op, !.status = 200,
                              !.body = inflight[c].body,
                              !.notify = inflight[c].notify]
    /\ inflight' = [inflight EXCEPT ![c] = Idle]
    /\ UNCHANGED <<now, nextId, PYTHON_TOKEN, TEKZAP, Mailbox, everDelivered, keyArgs>>

\* makeUniqueKey applied to both argument records
ApplyKey ==
    /\ keyArgs.ka = Null
    /\ keyArgs' = [keyArgs EXCEPT
                     !.ka = makeUniqueKey(keyArgs.a.event, keyArgs.a.tenantId,
                                          keyArgs.a.ticketId, keyArgs.a.messageId,
                                          keyArgs.a.sourceTs),
                     !.kb = makeUniqueKey(keyArgs.b.event, keyArgs.b.tenantId,
                                          keyArgs.b.ticketId, keyArgs.b.messageId,
                                          keyArgs.b.sourceTs)]
    /\ UNCHANGED <<now, nextId, PYTHON_TOKEN, TEKZAP, Mailbox, resp, everDelivered,
                   inflight>>

-----------------------------------------------------------------------------
(* Inputs *)

TicketBody(event, id, email, unread, ts, number) ==
    [EmptyBody EXCEPT
        !.event = event,
        !.tenantId = <<"1">>,
        !.ticket = [NoTicket EXCEPT !.present = TRUE, !.id = id, !.user_email = email,
                                    !.unread = unread, !.updatedAt = ts,
                                    !.contact_number = number,
                                    !.contact_name = IF number = Null THEN Null ELSE <<"c">>,
                                    !.queue_name = <<"q">>, !.queue_id = <<"9">>]]

MessageBody(fromMe, ticketId, number, id) ==
    [EmptyBody EXCEPT
        !.event = <<"NewMessage">>,
        !.tenantId = <<"1">>,
        !.message = [NoMessage EXCEPT !.present = TRUE, !.fromMe = fromMe,
                                      !.number = number, !.ticketId = ticketId,
                                      !.id = id]]

MetaBody(froms) == [EmptyBody EXCEPT !.object = <<"whatsapp_business_account">>,
                                     !.messages = froms]

EchoBody == [EmptyBody EXCEPT !.event_type = <<"message_sent">>]

\* Events of the store: three distinct keys, one of them assigned to a user
StoreBodies ==
    {TicketBody(<<"NewTicket">>, <<"7">>, Null, FALSE, Null, Null),
     TicketBody(<<"NewTicket">>, <<"7">>, <<"A", "@", "x">>, FALSE, <<"1">>, Null),
     TicketBody(<<"TransferOfTicket">>, <<"8">>, <<"b", "@", "x">>, FALSE, Null, Null)}

StoreQueries ==
    {[NoReq EXCEPT !.mode = <<"all">>],
     [NoReq EXCEPT !.mode = <<"all">>, !.limit = <<"1">>],
     [NoReq EXCEPT !.mode = <<"all">>, !.limit = <<"1">>, !.peek = <<"1">>],
     [NoReq EXCEPT !.mode = <<"pending">>, !.peek = <<"true">>]}

NextStore ==
    \/ Tick
    \/ Sweeper
    \/ \E body \in StoreBodies : PostRoot(body)
    \/ \E req \in StoreQueries : CheckNotifications(req)

SpecStore == InitWith({<<>>}) /\ [][NextStore]_vars

-----------------------------------------------------------------------------
(* Inputs of the query filters: a pending ticket and two assigned ones *)

QueryBodies ==
    {TicketBody(<<"NewTicket">>, <<"7">>, Null, FALSE, Null, Null),
     TicketBody(<<"NewTicket">>, <<"8">>, <<"A", "@", "x", " ">>, FALSE, Null, Null),
     TicketBody(<<"TransferOfTicket">>, <<"8">>, <<"b", "@", "x">>, FALSE, Null, Null)}

\* Well-formed queries with a subject
SubjectQueries ==
    {[NoReq EXCEPT !.mode = m, !.user_email = u, !.limit = l, !.peek = <<"1">>] :
        m \in {Null, <<"my">>, <<"pending">>, <<"all">>},
        u \in {<<"a", "@", "x">>, <<" ", "A", "@", "X">>, <<"b", "@", "x">>},
        l \in {Null, <<"1">>}}

\* Queries without a subject
NoSubjectQueries ==
    {[NoReq EXCEPT !.mode = m, !.user_email = u, !.peek = <<"1">>] :
        m \in {Null, <<"my">>, <<"pending">>}, u \in {Null, <<" ">>}}

\* Queries with a malformed mode, limit or peek
MalformedQueries ==
    {[NoReq EXCEPT !.mode = m, !.user_email = <<"a", "@", "x">>, !.peek = <<"1">>] :
        m \in {<<"xyz">>, <<"mine">>}}
    \cup
    {[NoReq EXCEPT !.mode = <<"my">>, !.user_email = <<"a", "@", "x">>, !.limit = l,
                   !.peek = <<"1">>] :
        l \in {<<"a", "b", "c">>, <<"0">>, <<"6", "0", "0">>, <<"-", "1">>}}
    \cup
    {[NoReq EXCEPT !.mode = <<"all">>, !.user_email = <<"a", "@", "x">>, !.peek = k] :
        k \in {Null, <<"y", "e", "s">>}}

\* The clock stands still here: expiry is exercised under SpecStore
NextQuery ==
    \/ \E body \in QueryBodies : PostWebhook(body)
    \/ \E req \in SubjectQueries \cup NoSubjectQueries \cup MalformedQueries :
          CheckNotifications(req)

SpecQuery == InitWith({<<>>}) /\ [][NextQuery]_vars

-----------------------------------------------------------------------------
(* Inputs of the enrichment: ticket events for ticket 7 and thin messages *)

EnrichBodies ==
    {TicketBody(<<"NewTicket">>, <<"7">>, <<"A", "@", "x">>, FALSE, Null, <<"+", "5", " ", "1">>),
     TicketBody(<<"UpdateOnTicket">>, <<"7">>, <<"b", "@", "x">>, FALSE, <<"2">>, Null),
     TicketBody(<<"UpdateOnTicket">>, <<"7">>, Null, TRUE, <<"3">>, Null),
     MessageBody(FALSE, <<"7">>, <<"5", "-", "2">>, <<"m">>),
     MessageBody(FALSE, <<"8">>, Null, <<"m">>),
     MessageBody(TRUE, <<"7">>, <<"5", "-", "2">>, <<"m">>)}

NextEnrich ==
    \/ Tick
    \/ \E body \in EnrichBodies : PostRoot(body)
    \/ \E body \in EnrichBodies : PostWebhook(body)

SpecEnrich == InitWith({<<>>}) /\ [][NextEnrich]_vars

-----------------------------------------------------------------------------
(* Inputs of the concurrent handlers: the same inbound message on both      *)
(* routes (one unique key, one number) and a Meta body with two numbers     *)

AsyncMessage == MessageBody(FALSE, <<"7">>, <<"5", "-", "2">>, <<"m">>)

AsyncMeta == MetaBody(<< <<"5", " ", "3">>, <<"5", "2">> >>)

NextAsync ==
    \/ \E c \in Conns : Receive(c, "post /", AsyncMessage)
    \/ \E c \in Conns, body \in {AsyncMessage, AsyncMeta} :
          Receive(c, "post /webhook", body)
    \/ \E c \in Conns : Respond(c)
    \/ CheckReplies
    \/ CheckNotifications([NoReq EXCEPT !.mode = <<"all">>])

SpecAsync == InitWith({<<>>}) /\ [][NextAsync]_vars

-----------------------------------------------------------------------------
(* Inputs of the acknowledgment: an echo and a Meta body whose second       *)
(* message is null on /, an unrecognized body and an inbound message on     *)
(* /webhook; Tekzap configured or not                                       *)

ThrowingMeta == MetaBody(<< <<"5", " ", "3">>, Throws, <<"5", "4">> >>)

NextAnswer ==
    \/ \E c \in Conns, body \in {EchoBody, ThrowingMeta} : Receive(c, "post /", body)
    \/ \E c \in Conns, body \in {EmptyBody, AsyncMessage} :
          Receive(c, "post /webhook", body)
    \/ \E c \in Conns, outcome \in Outcomes : NotifySettles(c, outcome)
    \/ \E c \in Conns : Respond(c)

\* The event loop resumes every handler whose await has settled, and
\* axios.post settles: it succeeds, fails or times out after 15 s
SpecAnswer ==
    /\ InitOf({<<>>}, BOOLEAN, {NoKeys})
    /\ [][NextAnswer]_vars
    /\ \A c \in Conns : WF_vars(Respond(c))
    /\ \A c \in Conns : WF_vars(\E outcome \in Outcomes : NotifySettles(c, outcome))

-----------------------------------------------------------------------------
(* Inputs of the token check.  "Bearer " is the one-token prefix of an      *)
(* Authorization header; the secret is "s"                                  *)

Cred(auth, x, q) ==
    [NoReq EXCEPT !.authorization = auth, !.x_auth_token = x, !.token = q,
                  !.mode = <<"all">>]

\* Requests whose first non-empty credential is the secret
GoodCreds ==
    {Cred(<<"Bearer ", "s">>, Null, Null),
     Cred(<<"Bearer ", " ", "s", " ">>, Null, Null),
     Cred(<<"Bearer ", "s">>, <<"x">>, Null),
     Cred(Null, <<"s">>, <<"x">>),
     Cred(Null, Null, <<"s">>),
     Cred(<<"Bearer ", " ">>, <<"s">>, Null),
     Cred(<<"s">>, Null, <<"s">>)}

\* Requests with no credential, or whose first non-empty credential is not
\* the secret
BadCreds ==
    {Cred(Null, Null, Null),
     Cred(<<"Bearer ", "x">>, <<"s">>, <<"s">>),
     Cred(Null, <<"x">>, <<"s">>),
     Cred(<<"s">>, Null, Null),
     Cred(Null, Null, <<"x">>)}

AuthBodies ==
    {TicketBody(<<"NewTicket">>, <<"7">>, Null, FALSE, Null, Null),
     TicketBody(<<"TransferOfTicket">>, <<"8">>, <<"b", "@", "x">>, FALSE, Null, Null)}

NextAuth ==
    \/ Tick
    \/ \E body \in AuthBodies : PostWebhook(body)
    \/ \E req \in GoodCreds \cup BadCreds : CheckNotifications(req)

SpecAuth == InitWith({<<>>, Secret}) /\ [][NextAuth]_vars

-----------------------------------------------------------------------------
(* Inputs of the classification: one body of every kind, and a NewMessage   *)
(* that also carries the `object` of a Meta body                            *)

HybridBody ==
    [MessageBody(FALSE, <<"8">>, <<"5", "4">>, <<"k">>) EXCEPT !.object = <<"page">>,
                                                                !.messages = << <<"5", "5">> >>]

ClassifyBodies ==
    {TicketBody(<<"NewTicket">>, <<"7">>, <<"A", "@", "x">>, FALSE, Null, <<"+", "5", " ", "1">>),
     MessageBody(FALSE, <<"7">>, <<"5", "-", "2">>, <<"m">>),
     MessageBody(FALSE, <<"7">>, Null, <<"n">>),
     MessageBody(TRUE, <<"7">>, <<"5", "-", "2">>, <<"m">>),
     MetaBody(<< <<"5", " ", "3">> >>),
     HybridBody,
     EmptyBody}

NextClassify ==
    \/ \E body \in ClassifyBodies : PostRoot(body)
    \/ CheckReplies

SpecClassify == InitWith({<<>>}) /\ [][NextClassify]_vars

-----------------------------------------------------------------------------
(* Inputs of the outbound echo: bodies with event_type = message_sent, bare *)
(* and carrying the fields of a ticket event, of an inbound message and of  *)
(* a Meta body                                                              *)

Echo(body) == [body EXCEPT !.event_type = <<"message_sent">>]

EchoBodies ==
    {EchoBody,
     Echo(TicketBody(<<"NewTicket">>, <<"7">>, Null, FALSE, Null, Null)),
     Echo(MessageBody(FALSE, <<"7">>, <<"5", "-", "2">>, <<"m">>)),
     Echo(MetaBody(<< <<"5", " ", "3">> >>))}

NextEcho ==
    \/ Tick
    \/ \E body \in EchoBodies : PostRoot(body)
    \/ \E body \in EchoBodies : PostWebhook(body)
    \/ CheckReplies
    \/ CheckNotifications([NoReq EXCEPT !.mode = <<"all">>])

SpecEcho == InitWith({<<>>}) /\ [][NextEcho]_vars

-----------------------------------------------------------------------------
(* Inputs of makeUniqueKey: every component absent, equal to a placeholder, *)
(* plain, or holding the separator                                          *)

KeyArgSets ==
    [event     : {Null, <<"e", "v", "t">>, <<"NewMessage">>},
     tenantId  : {Null, <<"t">>, <<"1">>, <<"1", "|", "7">>},
     ticketId  : {Null, <<"7">>, <<"7", "|", "7">>},
     messageId : {Null, <<"m", "i", "d">>},
     sourceTs  : {Null, <<"9">>}]

KeyInputs == [a : KeyArgSets, b : KeyArgSets, ka : {Null}, kb : {Null}]

NextKey == ApplyKey

SpecKey == InitOf({<<>>}, {FALSE}, KeyInputs) /\ [][NextKey]_vars

-----------------------------------------------------------------------------
(* Inputs of the enrichment cache: ticket events for three ticket ids, and  *)
(* for ticket 7 an UpdateOnTicket with and one without an unread signal     *)

CacheTicketIds == {<<"7">>, <<"8">>, <<"9">>}

CacheBodies ==
    {TicketBody(<<"NewTicket">>, <<"7">>, <<"A", "@", "x">>, FALSE, Null, Null),
     TicketBody(<<"NewTicket">>, <<"8">>, Null, FALSE, Null, Null),
     TicketBody(<<"StartedTicket">>, <<"9">>, Null, FALSE, Null, Null),
     TicketBody(<<"UpdateOnTicket">>, <<"7">>, <<"b", "@", "x">>, FALSE, <<"2">>, Null),
     TicketBody(<<"UpdateOnTicket">>, <<"7">>, Null, TRUE, <<"3">>, Null)}

NextCache ==
    \/ Tick
    \/ \E body \in CacheBodies : PostWebhook(body)
    \/ CheckNotifications([NoReq EXCEPT !.mode = <<"all">>])

SpecCache == InitWith({<<>>}) /\ [][NextCache]_vars

-----------------------------------------------------------------------------
(* Inputs of the health diagnostic *)

NextHealth ==
    \/ Tick
    \/ Sweeper
    \/ \E body \in AuthBodies : PostWebhook(body)
    \/ CheckNotifications([NoReq EXCEPT !.mode = <<"all">>, !.limit = <<"1">>])
    \/ Health

SpecHealth == InitWith({<<>>}) /\ [][NextHealth]_vars

-----------------------------------------------------------------------------
(* Inputs of the relevance filter: UpdateOnTicket without a signal, with    *)
(* unread, with unreadMessages, and without a ticket; other kinds with and  *)
(* without a signal                                                         *)

FilterBodies ==
    {TicketBody(<<"UpdateOnTicket">>, <<"7">>, Null, FALSE, <<"1">>, Null),
     TicketBody(<<"UpdateOnTicket">>, <<"7">>, Null, TRUE, <<"2">>, Null),
     [TicketBody(<<"UpdateOnTicket">>, <<"7">>, Null, FALSE, <<"3">>, Null)
         EXCEPT !.ticket.unreadMessages = 2],
     TicketBody(<<"FinishedTicket">>, <<"7">>, Null, FALSE, Null, Null),
     TicketBody(<<"NewTicket">>, <<"8">>, Null, TRUE, Null, Null),
     [EmptyBody EXCEPT !.event = <<"UpdateOnTicket">>]}

NextFilter ==
    \/ Tick
    \/ \E body \in FilterBodies : PostRoot(body)
    \/ \E body \in FilterBodies : PostWebhook(body)

SpecFilter == InitWith({<<>>}) /\ [][NextFilter]_vars

-----------------------------------------------------------------------------
(* Inputs of the ordering: the events of the store, and queries whose limit *)
(* is absent, inside 1..500, below and above it                             *)

OrderQueries ==
    {[NoReq EXCEPT !.mode = <<"all">>, !.limit = l] :
        l \in {Null, <<"0">>, <<"1">>, <<"6", "0", "0">>}}
    \cup
    {[NoReq EXCEPT !.user_email = <<"a", "@", "x">>, !.limit = <<"1">>, !.peek = <<"1">>]}

NextOrder ==
    \/ Tick
    \/ Sweeper
    \/ \E body \in StoreBodies : PostWebhook(body)
    \/ \E req \in OrderQueries : CheckNotifications(req)

SpecOrder == InitWith({<<>>}) /\ [][NextOrder]_vars

-----------------------------------------------------------------------------
(* Inputs of the seen-key set: one ticket event per ticket id, so that the  *)
(* cache tells which events were ever pushed; the query only looks          *)

SeenBodies ==
    {TicketBody(<<"NewTicket">>, <<"7">>, Null, FALSE, Null, Null),
     TicketBody(<<"NewTicket">>, <<"8">>, Null, FALSE, Null, Null),
     TicketBody(<<"StartedTicket">>, <<"9">>, Null, FALSE, Null, Null)}

NextSeen ==
    \/ Tick
    \/ Sweeper
    \/ \E body \in SeenBodies : PostWebhook(body)
    \/ CheckNotifications([NoReq EXCEPT !.mode = <<"all">>, !.peek = <<"1">>])

SpecSeen == InitWith({<<>>}) /\ [][NextSeen]_vars

-----------------------------------------------------------------------------
(* Inputs of the eviction: the clock of the model stops at MaxTime, so the  *)
(* events arrive while their TTL can still elapse; a consumer may poll or   *)
(* not                                                                      *)

BeforeHorizon == now + NOTIF_TTL_HOURS < MaxTime

NextEvict ==
    \/ Tick
    \/ Sweeper
    \/ BeforeHorizon /\ \E body \in SeenBodies : PostWebhook(body)
    \/ CheckNotifications([NoReq EXCEPT !.mode = <<"all">>, !.limit = <<"1">>])

\* Time advances, and the setInterval timer keeps running the sweeper
SpecEvict ==
    /\ InitWith({<<>>})
    /\ [][NextEvict]_vars
    /\ WF_vars(Tick)
    /\ WF_vars(Sweeper)

-----------------------------------------------------------------------------
(* Inputs of the pending flag: ticket 7 assigned, with a blank e-mail and   *)
(* with none; inbound messages for ticket 7 and for the unknown ticket 8    *)

PendingBodies ==
    {TicketBody(<<"NewTicket">>, <<"7">>, <<"A", "@", "x">>, FALSE, Null, Null),
     TicketBody(<<"TransferOfTicket">>, <<"7">>, <<" ">>, FALSE, Null, Null),
     TicketBody(<<"StartedTicket">>, <<"7">>, Null, FALSE, Null, Null),
     MessageBody(FALSE, <<"7">>, <<"5", "1">>, <<"m">>),
     MessageBody(FALSE, <<"7">>, <<"5", "1">>, <<"n">>),
     MessageBody(FALSE, <<"8">>, <<"5", "2">>, <<"m">>)}

NextPending ==
    \/ \E body \in PendingBodies : PostWebhook(body)
    \/ CheckNotifications([NoReq EXCEPT !.mode = <<"pending">>])

SpecPending == InitWith({<<>>}) /\ [][NextPending]_vars

-----------------------------------------------------------------------------
(* Inputs of the reply set: Tekzap messages and Meta messages whose sender  *)
(* holds digits among other characters, and whose sender holds no digit     *)

ReplyBodies ==
    {MessageBody(FALSE, <<"7">>, <<"+", "5", " ", "1">>, <<"m">>),
     MessageBody(FALSE, <<"7">>, <<"-">>, <<"n">>),
     MessageBody(TRUE, <<"7">>, <<"5", "4">>, <<"o">>),
     MetaBody(<< <<"5", " ", "3">> >>),
     MetaBody(<< <<"a", "b">>, <<"5", "2">> >>)}

NextReply ==
    \/ \E body \in ReplyBodies : PostRoot(body)
    \/ \E body \in ReplyBodies : PostWebhook(body)
    \/ CheckReplies

SpecReply == InitWith({<<>>}) /\ [][NextReply]_vars

-----------------------------------------------------------------------------
(* Vocabulary of the properties *)

Range(f) == {f[i] : i \in DOMAIN f}

Live == Range(pendingNotifications)

\* The live record with the given id
Rec(id) == CHOOSE n \in Live : n.id = id

PostOps == {"post /", "post /webhook"}

\* The last step was a served query of /check-notifications
Served == resp.op = "check-notifications" /\ resp.status = 200

\* This step calls pushNotification
PushStep == resp'.op \in PostOps /\ resp'.run.returned # "none"

\* This step is a served query of /check-notifications
QueryStep == resp'.op = "check-notifications" /\ resp'.status = 200

IsPeek(req) == req.peek \in {<<"1">>, <<"true">>}

\* Age at which the code removes a record: created_at < now - TTL
Expired(n, t) == t > n.created_at + NOTIF_TTL_HOURS

-----------------------------------------------------------------------------
(* C1: in every reachable state no two live records of pendingNotifications *)
(* have the same summary.unique_key.                                        *)
C1_UniqueLiveKeys ==
    \A i, j \in 1..Len(pendingNotifications) :
        i # j => UniqueKeyOf(pendingNotifications[i]) # UniqueKeyOf(pendingNotifications[j])

\* A repeated event was pushed while its record and another one were live
C1_Witness ==
    /\ resp.op = "post /"
    /\ resp.run.seenBefore
    /\ Len(pendingNotifications) = NOTIF_MAX

(* C2 as claimed: a push with the key of a live record changes nothing and  *)
(* reports "not inserted"; a push with an unseen key reports "inserted".    *)
C2_PushReportsInsertion ==
    [][PushStep =>
         IF resp'.run.key \in KeysOf(pendingNotifications)
         THEN /\ pendingNotifications' = pendingNotifications
              /\ notifSeenKeys' = notifSeenKeys
              /\ resp'.run.returned = "not inserted"
         ELSE resp'.run.returned = "inserted"]_vars

(* C2, amended: a push with the key of a live record (delivered or not)     *)
(* leaves the record list, the key set and every field of that record       *)
(* unchanged; a push with an unseen key puts a new undelivered record with  *)
(* a fresh id at the head and adds its key; pushNotification returns        *)
(* undefined either way.                                                    *)
C2_DuplicatePushIsNoOp ==
    [][PushStep =>
         IF resp'.run.key \in KeysOf(pendingNotifications)
         THEN /\ pendingNotifications' = pendingNotifications
              /\ notifSeenKeys' = notifSeenKeys
              /\ nextId' = nextId
              /\ resp'.run.returned = "undefined"
         ELSE /\ pendingNotifications' # <<>>
              /\ UniqueKeyOf(Head(pendingNotifications')) = resp'.run.key
              /\ Head(pendingNotifications').id \notin IdsOf(pendingNotifications)
              /\ Head(pendingNotifications').id \notin everDelivered
              /\ Head(pendingNotifications').delivered_at = NotDelivered
              /\ Head(pendingNotifications').created_at = now
              /\ resp'.run.key \in notifSeenKeys'
              /\ resp'.run.returned = "undefined"]_vars

\* A repeated event was pushed while its record was live and already delivered
C2_Witness ==
    /\ resp.op = "post /"
    /\ resp.run.seenBefore
    /\ \E n \in Live : UniqueKeyOf(n) = resp.run.key /\ n.delivered_at # NotDelivered

(* C3: after every push at most NOTIF_MAX records are live; a push of a new *)
(* key onto NOTIF_MAX live records leaves exactly NOTIF_MAX, and the one    *)
(* record dropped is the tail, the oldest by created_at.                    *)
C3_CapacityCap ==
    /\ [](Len(pendingNotifications) <= NOTIF_MAX)
    /\ [][(PushStep /\ resp'.run.created /\ Len(pendingNotifications) = NOTIF_MAX) =>
            /\ Len(pendingNotifications') = NOTIF_MAX
            /\ SubSeq(pendingNotifications', 2, NOTIF_MAX)
                 = SubSeq(pendingNotifications, 1, NOTIF_MAX - 1)
            /\ LET old == pendingNotifications[NOTIF_MAX]
               IN /\ old.id \notin IdsOf(pendingNotifications')
                  /\ UniqueKeyOf(old) \notin KeysOf(pendingNotifications')
                  /\ \A n \in Range(pendingNotifications') :
                        old.created_at <= n.created_at]_vars

\* A push just dropped a record off a full queue
C3_Witness ==
    /\ resp.op = "post /"
    /\ resp.run.dropped # {}
    /\ Len(pendingNotifications) = NOTIF_MAX

(* C4 as claimed: no query returns a record once now >= created_at + TTL.   *)
C4_AbsentFromTTLOn ==
    Served => \A i \in 1..Len(resp.items) :
                 ~(now >= Rec(resp.items[i]).created_at + NOTIF_TTL_HOURS)

(* C4, amended: no query returns a record at a time > created_at + TTL,     *)
(* whether or not the sweeper has run; at every time <= created_at + TTL    *)
(* (the instant created_at + TTL included) a record leaves the queue only   *)
(* through the capacity cap, and a query for mode all without a limit       *)
(* returns it if it is undelivered.                                         *)
C4_ExpiresAfterTTL ==
    /\ [](Served => \A i \in 1..Len(resp.items) : ~Expired(Rec(resp.items[i]), now))
    /\ [][\A n \in Live :
            n.id \notin IdsOf(pendingNotifications') =>
                \/ Expired(n, now)
                \/ PushStep /\ n.id \in resp'.run.dropped]_vars
    /\ [][(QueryStep /\ resp'.req.mode = <<"all">> /\ resp'.req.limit = Null) =>
            \A n \in Live :
                (~Expired(n, now) /\ n.delivered_at = NotDelivered) =>
                    n.id \in Range(resp'.items)]_vars

\* A query at exactly created_at + TTL returned the record
C4_Witness ==
    /\ Served
    /\ \E i \in 1..Len(resp.items) :
          now = Rec(resp.items[i]).created_at + NOTIF_TTL_HOURS

(* C5: a non-peek query stamps every record it returns with the one         *)
(* delivered_at of its response, and no query returns a record that an      *)
(* earlier non-peek query returned.                                         *)
C5_DeliveredAtMostOnce ==
    /\ []((Served /\ ~IsPeek(resp.req)) =>
            /\ resp.delivered_at # NotDelivered
            /\ \A i \in 1..Len(resp.items) :
                  Rec(resp.items[i]).delivered_at = resp.delivered_at)
    /\ [][QueryStep => Range(resp'.items) \cap everDelivered = {}]_vars

\* A non-peek query returned a record and passed over a live one delivered before
C5_Witness ==
    /\ Served
    /\ ~IsPeek(resp.req)
    /\ resp.items # <<>>
    /\ \E n \in Live : n.id \in everDelivered /\ n.id \notin Range(resp.items)

(* C6 as claimed: a peek query leaves the record list and the key set as    *)
(* they were.                                                               *)
C6_PeekChangesNothing ==
    [][(QueryStep /\ IsPeek(resp'.req)) =>
          /\ pendingNotifications' = pendingNotifications
          /\ notifSeenKeys' = notifSeenKeys]_vars

(* C6, amended: a peek query stamps no delivered_at and changes nothing but *)
(* the records its TTL cleanup removes, with their keys; a non-peek query   *)
(* with identical filters issued right after it returns the records the     *)
(* peek returned.                                                           *)
C6_PeekOnlyCleansUp ==
    /\ [][(QueryStep /\ IsPeek(resp'.req)) =>
            /\ pendingNotifications' =
                  SelectSeq(pendingNotifications, LAMBDA n : ~Expired(n, now))
            /\ notifSeenKeys' =
                  notifSeenKeys \ {UniqueKeyOf(n) : n \in {m \in Live : Expired(m, now)}}
            /\ UNCHANGED <<now, nextId, pendingReplies, ticketCache, everDelivered>>]_vars
    /\ [][(/\ Served /\ IsPeek(resp.req)
           /\ QueryStep /\ ~IsPeek(resp'.req)
           /\ [resp'.req EXCEPT !.peek = Null] = [resp.req EXCEPT !.peek = Null]) =>
            resp'.items = resp.items]_vars

\* A peek query returned records, all of them still undelivered
C6_Witness ==
    /\ Served
    /\ IsPeek(resp.req)
    /\ resp.items # <<>>
    /\ \A i \in 1..Len(resp.items) : Rec(resp.items[i]).delivered_at = NotDelivered

-----------------------------------------------------------------------------
(* The query filters as the specification words them *)

\* The subject of a query, blanks trimmed; <<>> when none is supplied
Subject(req) == IF req.user_email = Null THEN <<>> ELSE Trim(req.user_email)

SameIgnoringCase(a, b) == a # Null /\ b # Null /\ ToLowerCase(a) = ToLowerCase(b)

\* The predicate of a documented mode
Matches(mode, subject, n) ==
    CASE mode = "pending" -> n.summary.is_pending = TRUE
      [] mode = "mine"    -> \/ n.summary.is_pending = TRUE
                             \/ SameIgnoringCase(n.summary.user_email, subject)
      [] mode = "all"     -> TRUE

\* The first `limit` live undelivered records that match, as ids
Expected(mode, subject, limit) ==
    LET elig == SelectSeq(pendingNotifications,
                          LAMBDA n : /\ ~Expired(n, now)
                                     /\ n.delivered_at = NotDelivered
                                     /\ Matches(mode, subject, n))
        k == IF limit < Len(elig) THEN limit ELSE Len(elig)
    IN [i \in 1..k |-> elig[i].id]

\* The documented reading of the mode parameter: my is the default
DocumentedMode(req) ==
    CASE req.mode = <<"pending">> -> "pending"
      [] req.mode = <<"all">>     -> "all"
      [] OTHER                    -> "mine"

\* The documented reading of the limit parameter: default 100, range 1..500
DocumentedLimit(req) ==
    CASE req.limit = <<"1">>           -> 1
      [] req.limit = <<"0">>           -> 1
      [] req.limit = <<"-", "1">>      -> 1
      [] req.limit = <<"6", "0", "0">> -> LIMIT_MAX
      [] OTHER                         -> LIMIT_DEFAULT

WellFormed(req) ==
    /\ req.mode \in {Null, <<"my">>, <<"pending">>, <<"all">>}
    /\ req.limit \in {Null, <<"1">>}
    /\ req.peek \in {Null, <<"1">>, <<"true">>}

(* C7: a query with a non-empty subject returns exactly the first `limit`   *)
(* live undelivered records that satisfy its mode: pending, is_pending      *)
(* true; my, pending or user_email equal to the subject ignoring case;      *)
(* all, every live undelivered record.                                      *)
C7_ModeFilters ==
    [][(QueryStep /\ WellFormed(resp'.req) /\ Subject(resp'.req) # <<>>) =>
          resp'.items = Expected(DocumentedMode(resp'.req), Subject(resp'.req),
                                 DocumentedLimit(resp'.req))]_vars

\* A query in mode my returned a record of its subject, asked for in another
\* case, and a pending one, and left out a record of another user
C7_Witness ==
    /\ Served
    /\ resp.req.mode = <<"my">>
    /\ resp.req.user_email = <<" ", "A", "@", "X">>
    /\ \E i \in 1..Len(resp.items) :
          Rec(resp.items[i]).summary.user_email = <<"a", "@", "x">>
    /\ \E n \in Live : /\ n.summary.user_email = <<"b", "@", "x">>
                       /\ n.id \notin Range(resp.items)

(* C8: a query in mode my (or with no mode) and no subject returns what the *)
(* same query in mode pending returns.                                      *)
C8_MineWithoutSubjectIsPending ==
    [][(/\ QueryStep
        /\ resp'.req.mode \in {Null, <<"my">>}
        /\ resp'.req.limit = Null
        /\ Subject(resp'.req) = <<>>) =>
          resp'.items = Expected("pending", <<>>, LIMIT_DEFAULT)]_vars

(* C9: a query with a malformed mode, limit or peek is answered as the      *)
(* query with the documented defaults: mode my, limit 100 clamped to        *)
(* 1..500, peek false; it is never refused.                                 *)
C9_MalformedFallsBackToDefaults ==
    [][(resp'.op = "check-notifications" /\ Subject(resp'.req) # <<>>) =>
          /\ resp'.status = 200
          /\ resp'.items = Expected(DocumentedMode(resp'.req), Subject(resp'.req),
                                    DocumentedLimit(resp'.req))
          /\ (resp'.delivered_at = NotDelivered) <=> IsPeek(resp'.req)]_vars

\* The thin NewMessage step: an inbound message stored as a new record
ThinPushStep ==
    /\ PushStep
    /\ resp'.body.event = <<"NewMessage">>
    /\ resp'.run.created

\* '' and null both say that a field is absent
Absent(x) == x = Null \/ x = <<>>

SameField(a, b) == a = b \/ (Absent(a) /\ Absent(b))

\* The stored summary carries what the cache entry (if any) holds
C10_FromCacheEntry ==
    [][ThinPushStep =>
          LET r == Head(pendingNotifications').summary
              T == resp'.body.message.ticketId
          IN IF T \in DOMAIN ticketCache
             THEN /\ SameField(r.user_email, ticketCache[T].user_email)
                  /\ r.is_pending = ticketCache[T].is_pending
                  /\ SameField(r.queue_name, ticketCache[T].queue_name)
                  /\ SameField(r.queue_id, ticketCache[T].queue_id)
                  /\ SameField(r.contact_name, ticketCache[T].contact_name)
                  /\ ~Absent(ticketCache[T].contact_number) =>
                        r.contact_number = ticketCache[T].contact_number
             ELSE Absent(r.user_email) /\ r.is_pending = TRUE]_vars

\* The step before was a ticket-lifecycle event for ticket T
TicketEventFor(r, T) ==
    /\ r.op \in PostOps
    /\ r.body.event \in ticketEvents
    /\ r.body.ticket.present
    /\ r.body.ticket.id = T

(* C10: a thin inbound NewMessage for ticket T is stored with the           *)
(* user_email, is_pending, queue and contact of the cache entry for T when  *)
(* there is one, so that right after a ticket-level event for T with        *)
(* subject s its subject is s; with no entry it has no subject and          *)
(* is_pending is true.                                                      *)
C10_EnrichedFromTicketEvent ==
    /\ C10_FromCacheEntry
    /\ [][(ThinPushStep /\ TicketEventFor(resp, resp'.body.message.ticketId)) =>
            SameField(Head(pendingNotifications').summary.user_email,
                      TicketUserEmail(resp.body.ticket))]_vars

-----------------------------------------------------------------------------
(* The handlers suspended at an await *)

\* This step is the arrival of a POST on connection c
ReceiveStep(c) == inflight[c].stage = "idle" /\ inflight'[c].stage # "idle"

\* This step is a drain of /check-replies
DrainStep == resp'.op = "check-replies"

\* The normalized identifiers the inputs carry, written out
Identifiers(body) ==
    CASE body = AsyncMessage -> {<<"5", "2">>}
      [] body = AsyncMeta    -> {<<"5", "3">>, <<"5", "2">>}
      [] OTHER               -> {}

(* C11: every arrival adds the identifiers of its body to the reply set,    *)
(* whatever other handlers are suspended; a drain returns exactly the       *)
(* identifiers added since the drain before, each once, and clears the set; *)
(* a drain right after a drain returns none; nothing but a drain removes an *)
(* identifier.                                                              *)
C11_DrainReturnsEachOnce ==
    [][/\ \A c \in Conns :
            ReceiveStep(c) =>
                pendingReplies' = pendingReplies \cup Identifiers(inflight'[c].body)
       /\ DrainStep => /\ resp'.numbers = pendingReplies
                       /\ resp'.count = Cardinality(pendingReplies)
                       /\ pendingReplies' = {}
       /\ (DrainStep /\ resp.op = "check-replies") => resp'.count = 0
       /\ (~DrainStep /\ \A c \in Conns : ~ReceiveStep(c)) =>
             pendingReplies' = pendingReplies]_vars

\* A drain returned the two distinct identifiers of three additions made by
\* handlers that were suspended together
C11_Witness ==
    /\ resp.op = "check-replies"
    /\ resp.count = 2
    /\ resp.numbers = {<<"5", "2">>, <<"5", "3">>}
    /\ pendingReplies = {}
    /\ \A c \in Conns : inflight[c].stage = "responding"
    /\ \E c, d \in Conns : /\ inflight[c].body = AsyncMessage
                            /\ inflight[d].body = AsyncMeta

(* C12: every POST that arrived on / or /webhook is eventually answered,    *)
(* and the answer is 200: for a recognized event, an unrecognized body, a   *)
(* body whose processing raises, and an echo whose outbound call succeeds,  *)
(* fails or times out.                                                      *)
C12_AlwaysAnswered200 ==
    /\ \A c \in Conns :
          (inflight[c].stage # "idle") ~>
              (inflight[c].stage = "idle" /\ resp.op \in PostOps /\ resp.status = 200)
    /\ [][\A c \in Conns :
            (inflight[c].stage # "idle" /\ inflight'[c].stage = "idle") =>
                /\ resp'.status = 200
                /\ resp'.op = inflight[c].op
                /\ resp'.body = inflight[c].body]_vars

\* An echo whose outbound call timed out was answered 200 while the handler
\* of a body that raised was still suspended
C12_Witness ==
    /\ resp.op = "post /"
    /\ resp.status = 200
    /\ resp.body = EchoBody
    /\ resp.notify = "timeout"
    /\ \E c \in Conns : /\ inflight[c].body = ThrowingMeta
                         /\ inflight[c].stage = "responding"
    /\ pendingReplies = {<<"5", "3">>}

-----------------------------------------------------------------------------
(* The token check *)

\* This step is a request to /check-notifications
AuthStep == resp'.op = "check-notifications"

(* C13: with a secret configured a /check-notifications request is served   *)
(* exactly when its first non-empty credential (bearer, x-auth-token,       *)
(* token) is the secret; any other request gets 401 and changes nothing: no *)
(* cleanup, no stamp, no removal.  With no secret every request is served.  *)
C13_TokenGate ==
    [][AuthStep =>
          /\ resp'.status \in {200, 401}
          /\ resp'.status = 200 <=>
                (PYTHON_TOKEN = <<>> \/ resp'.req \in GoodCreds)
          /\ resp'.status = 401 =>
                /\ Mailbox' = Mailbox
                /\ everDelivered' = everDelivered
                /\ resp'.items = <<>>
          /\ resp'.status = 200 =>
                \A n \in Live : (~Expired(n, now) /\ n.delivered_at = NotDelivered) =>
                                    n.id \in Range(resp'.items)]_vars

\* A request whose later credentials are the secret but whose bearer is not
\* was refused while the store held an expired and an undelivered record
C13_Witness ==
    /\ resp.op = "check-notifications"
    /\ resp.status = 401
    /\ resp.req = Cred(<<"Bearer ", "x">>, <<"s">>, <<"s">>)
    /\ \E n \in Live : Expired(n, now)
    /\ \E n \in Live : ~Expired(n, now) /\ n.delivered_at = NotDelivered

-----------------------------------------------------------------------------
(* The classification of inbound events *)

\* This step hands its body to processWebhook
ProcessStep ==
    /\ resp'.op \in PostOps
    /\ ~(resp'.op = "post /" /\ resp'.body.event_type = <<"message_sent">>)

\* A Tekzap NewMessage that the client sent
InboundMessage(body) ==
    /\ body.event = <<"NewMessage">>
    /\ body.message.present
    /\ body.message.fromMe = FALSE

RepliesChange == pendingReplies' # pendingReplies

StoreChanges == pendingNotifications' # pendingNotifications

(* C14 as claimed: no inbound event modifies both the reply set and the     *)
(* notification store.                                                      *)
C14_NeverBoth ==
    [][ProcessStep => ~(RepliesChange /\ StoreChanges)]_vars

(* C14, amended: an event modifies both the reply set and the notification  *)
(* store only when it is an inbound NewMessage, which is a reply and a thin *)
(* message event at once: its number (when it has one) joins the reply set  *)
(* and its key the store.  A ticket-lifecycle event leaves the reply set    *)
(* alone, a Meta body the store and the cache, any other body everything.   *)
C14_BothOnlyForInboundMessage ==
    [][ProcessStep =>
          LET body == resp'.body
          IN /\ (RepliesChange /\ StoreChanges) => InboundMessage(body)
             /\ InboundMessage(body) =>
                   /\ resp'.run.key \in notifSeenKeys'
                   /\ body.message.number # Null =>
                         SelectSeq(body.message.number, IsDigit) \in pendingReplies'
                   /\ ticketCache' = ticketCache
             /\ (body.event \in ticketEvents /\ body.ticket.present) => ~RepliesChange
             /\ (body.event = Null /\ body.object # Null) =>
                   ~StoreChanges /\ ticketCache' = ticketCache
             /\ (body.event = Null /\ body.object = Null) => Mailbox' = Mailbox
             /\ (body.event = <<"NewMessage">> /\ body.message.fromMe) =>
                   Mailbox' = Mailbox]_vars

\* An inbound NewMessage has just added its number to the reply set and a
\* record to the store
C14_Witness ==
    /\ resp.op \in PostOps
    /\ InboundMessage(resp.body)
    /\ resp.run.created
    /\ ~resp.run.seenBefore
    /\ pendingReplies = {<<"5", "2">>}
    /\ Head(pendingNotifications).summary.unique_key = resp.run.key

(* C15: an outbound echo (event_type = message_sent) posted to / or to      *)
(* /webhook, whatever else its body carries, leaves the notification store, *)
(* the seen-key set, the enrichment cache and the reply set unchanged.      *)
C15_EchoTouchesNothing ==
    [][(resp'.op \in PostOps /\ resp'.body.event_type = <<"message_sent">>) =>
          Mailbox' = Mailbox]_vars

\* The part that holds: an echo posted to / touches nothing
C15_EchoOnRootTouchesNothing ==
    [][(resp'.op = "post /" /\ resp'.body.event_type = <<"message_sent">>) =>
          Mailbox' = Mailbox]_vars

-----------------------------------------------------------------------------
(* Concurrent pushes of one key *)

\* The handler on connection c is suspended after a push of key k
HoldsKey(c, k) ==
    /\ inflight[c].stage = "responding"
    /\ inflight[c].run.key = k
    /\ k # Null

\* The live records with unique key k
WithKey(k) ==
    {i \in 1..Len(pendingNotifications) : pendingNotifications[i].summary.unique_key = k}

(* C16: when the handlers of two requests with the same unique key are in   *)
(* progress together, exactly one record with that key is stored and at     *)
(* most one of the two runs created it; the run that arrives while the      *)
(* other is suspended inserts nothing.                                      *)
C16_OneRecordForConcurrentPushes ==
    /\ [](\A c, d \in Conns :
            (c # d /\ HoldsKey(c, inflight[d].run.key) /\ HoldsKey(d, inflight[c].run.key)) =>
               /\ Cardinality(WithKey(inflight[c].run.key)) = 1
               /\ ~(inflight[c].run.created /\ inflight[d].run.created))
    /\ [][\A c, d \in Conns :
            (c # d /\ ReceiveStep(c) /\ HoldsKey(d, inflight'[c].run.key)) =>
               /\ pendingNotifications' = pendingNotifications
               /\ notifSeenKeys' = notifSeenKeys
               /\ ~inflight'[c].run.created]_vars

\* Two handlers that pushed the same key are suspended together; the first
\* created the record, the second came from the other route and did not
C16_Witness ==
    /\ HoldsKey(1, inflight[2].run.key)
    /\ HoldsKey(2, inflight[1].run.key)
    /\ inflight[1].op = "post /"
    /\ inflight[2].op = "post /webhook"
    /\ inflight[1].run.created
    /\ ~inflight[2].run.created
    /\ Len(pendingNotifications) = 1

-----------------------------------------------------------------------------
(* The unique key *)

(* C17: two events get the same key only if they agree on all five          *)
(* components, an absent component agreeing only with an absent one.        *)
C17_KeyInjective ==
    (keyArgs.ka # Null /\ keyArgs.ka = keyArgs.kb) => keyArgs.a = keyArgs.b

\* The same for events none of whose components holds the separator: the
\* placeholders alone collide
C17_KeyInjectiveWithoutSeparator ==
    (/\ keyArgs.ka # Null
     /\ keyArgs.ka = keyArgs.kb
     /\ \A x \in {keyArgs.a, keyArgs.b} :
           \A f \in DOMAIN x : "|" \notin Range(x[f])) => keyArgs.a = keyArgs.b

\* The same for events none of whose components equals its placeholder: the
\* separator alone collides
C17_KeyInjectiveWithoutPlaceholder ==
    (/\ keyArgs.ka # Null
     /\ keyArgs.ka = keyArgs.kb
     /\ \A x \in {keyArgs.a, keyArgs.b} :
           /\ x.event # <<"e", "v", "t">>
           /\ x.tenantId # <<"t">>
           /\ x.messageId # <<"m", "i", "d">>) => keyArgs.a = keyArgs.b

-----------------------------------------------------------------------------
(* The enrichment cache *)

(* C18: the number of entries of the enrichment cache never exceeds a       *)
(* maximum: whatever the maximum, as long as it is smaller than the number  *)
(* of distinct ticket ids that arrive, the cache stays within it.           *)
C18_CacheBounded ==
    Cardinality(DOMAIN ticketCache) < Cardinality(CacheTicketIds)

\* What the code does instead: no step ever removes an entry
C18_CacheNeverEvicts ==
    [][DOMAIN ticketCache \subseteq DOMAIN ticketCache']_vars

\* This step processes a ticket-lifecycle event that carries a ticket id
TicketEventStep ==
    /\ ProcessStep
    /\ resp'.body.event \in ticketEvents
    /\ resp'.body.ticket.present
    /\ resp'.body.ticket.id # Null

(* C20: after a ticket-lifecycle event of any kind for ticket id T the      *)
(* cache entry for T is that event's context, also when the event is an     *)
(* UpdateOnTicket that the relevance filter does not forward.               *)
C20_CacheHoldsLatestTicketEvent ==
    [][TicketEventStep =>
          LET t == resp'.body.ticket
          IN /\ t.id \in DOMAIN ticketCache'
             /\ ticketCache'[t.id] = TicketContext(t)]_vars

\* The part that holds: every ticket-lifecycle event that is forwarded
\* replaces the entry
C20_ForwardedEventReplacesEntry ==
    [][(TicketEventStep /\ resp'.run.returned # "none") =>
          LET t == resp'.body.ticket
          IN /\ t.id \in DOMAIN ticketCache'
             /\ ticketCache'[t.id] = TicketContext(t)]_vars

-----------------------------------------------------------------------------
(* The health diagnostic *)

HealthStep == resp'.op = "health"

\* The stored records that are undelivered
Undelivered ==
    {i \in 1..Len(pendingNotifications) :
        pendingNotifications[i].delivered_at = NotDelivered}

\* The stored records that are undelivered and whose TTL has not elapsed
LiveUndelivered ==
    {i \in Undelivered : ~Expired(pendingNotifications[i], now)}

(* C19: /health changes no mailbox state, its notification count is the     *)
(* number of live undelivered records, and once the TTL of every stored     *)
(* record has elapsed it reports zero.                                      *)
C19_HealthReflectsExpiry ==
    [][HealthStep =>
          /\ Mailbox' = Mailbox
          /\ resp'.count = Cardinality(LiveUndelivered)
          /\ (\A n \in Live : Expired(n, now)) => resp'.count = 0]_vars

\* The part that holds: /health is read-only and counts the undelivered
\* records still stored, expired or not; right after a sweep these are the
\* live ones
C19_HealthCountsStoredUndelivered ==
    [][HealthStep =>
          /\ Mailbox' = Mailbox
          /\ resp'.count = Cardinality(Undelivered)
          /\ resp.op = "sweep" => resp'.count = Cardinality(LiveUndelivered)]_vars

-----------------------------------------------------------------------------
(* The relevance filter of UpdateOnTicket *)

\* The unread signal of a ticket: unread is true or unreadMessages > 0
HasUnreadSignal(t) == t.unread = TRUE \/ t.unreadMessages > 0

\* This step processes a ticket-lifecycle event that carries a ticket
FullTicketStep ==
    /\ ProcessStep
    /\ resp'.body.event \in ticketEvents
    /\ resp'.body.ticket.present

\* This step stores the processed body as a new record at the head
StoresNewRecord ==
    /\ pendingNotifications' # <<>>
    /\ Head(pendingNotifications').payload = resp'.body
    /\ Head(pendingNotifications').id \notin IdsOf(pendingNotifications)

(* C21: an UpdateOnTicket with a ticket and no unread signal (unread is not *)
(* true and unreadMessages is not above 0) is not pushed and leaves the     *)
(* store as it was; an UpdateOnTicket with a signal and every other         *)
(* ticket-lifecycle kind with a ticket is pushed whatever its signal, and   *)
(* stored as a new record unless its key is already live.                   *)
C21_UpdateNeedsUnreadSignal ==
    [][FullTicketStep =>
          IF resp'.body.event = <<"UpdateOnTicket">>
             /\ ~HasUnreadSignal(resp'.body.ticket)
          THEN /\ ~PushStep
               /\ pendingNotifications' = pendingNotifications
               /\ notifSeenKeys' = notifSeenKeys
          ELSE /\ PushStep
               /\ resp'.run.seenBefore => ~StoresNewRecord
               /\ ~resp'.run.seenBefore => StoresNewRecord]_vars

\* An UpdateOnTicket without a signal was dropped while the store holds an
\* UpdateOnTicket with a signal and a signal-free event of another kind
C21_Witness ==
    /\ resp.op \in PostOps
    /\ resp.body.event = <<"UpdateOnTicket">>
    /\ resp.body.ticket.present
    /\ ~HasUnreadSignal(resp.body.ticket)
    /\ resp.run.returned = "none"
    /\ \E n \in Live : /\ n.summary.event = <<"UpdateOnTicket">>
                       /\ n.payload.ticket.unread = FALSE
                       /\ n.payload.ticket.unreadMessages > 0
    /\ \E n \in Live : /\ n.summary.event = <<"FinishedTicket">>
                       /\ ~HasUnreadSignal(n.payload.ticket)

-----------------------------------------------------------------------------
(* The order of the store and of the query results *)

\* list is in newest-first insertion order: ids (assigned in insertion
\* order) descend strictly and created_at never increases
NewestFirst(list) ==
    \A i, j \in 1..Len(list) :
        i < j => /\ list[i].id > list[j].id
                 /\ list[i].created_at >= list[j].created_at

\* The records with the given ids, in the order of ids
RecordsOf(list, ids) ==
    [i \in 1..Len(ids) |-> CHOOSE n \in Range(list) : n.id = ids[i]]

\* The records a query is entitled to, in store order: live, undelivered
\* and passing the mode filter of the request
Eligible(req) ==
    ModeFilter(SelectSeq(pendingNotifications,
                         LAMBDA n : ~Expired(n, now) /\ n.delivered_at = NotDelivered),
               Or(req.mode, <<"my">>), safeLower(req.user_email))

\* min(max(limit, 1), 500), limit being 100 when absent
LimitBound(req) == DocumentedLimit(req)

(* C22: the store's list is in newest-first insertion order in every        *)
(* reachable state, and every query result is in that order (created_at     *)
(* non-increasing), holds at most min(max(limit, 1), 500) records and is    *)
(* made of the newest eligible ones: it is the head of the eligible records *)
(* in store order, cut at that bound.                                       *)
C22_NewestFirstTruncated ==
    /\ [](NewestFirst(pendingNotifications))
    /\ [][QueryStep =>
             LET bound == LimitBound(resp'.req)
                 elig == Eligible(resp'.req)
                 k == IF bound < Len(elig) THEN bound ELSE Len(elig)
             IN /\ QueryLimit(resp'.req) = Num(bound)
                /\ Len(resp'.items) <= bound
                /\ resp'.items = SeqIds(SubSeq(elig, 1, k))
                /\ NewestFirst(RecordsOf(pendingNotifications', resp'.items))]_vars

\* A query with limit 1 returned the newest of two eligible records and left
\* the older one undelivered
C22_Witness ==
    /\ Served
    /\ resp.req.limit = <<"1">>
    /\ resp.req.peek = Null
    /\ Len(resp.items) = 1
    /\ Len(pendingNotifications) = NOTIF_MAX
    /\ \E n \in Live : /\ n.id < resp.items[1]
                       /\ n.delivered_at = NotDelivered
                       /\ n.created_at < Rec(resp.items[1]).created_at

-----------------------------------------------------------------------------
(* The seen-key set *)

\* The unique_key values of the records of list
StoredKeys(list) == {list[i].summary.unique_key : i \in 1..Len(list)}

(* C23: in every reachable state notifSeenKeys is exactly the set of the    *)
(* unique_key values of the stored records, so that the key of a record     *)
(* goes when TTL or the capacity cap evicts the record; a push whose key no *)
(* stored record holds, that of an evicted record included, is stored as a  *)
(* new record and its key is seen again.                                    *)
C23_SeenKeysAreLiveKeys ==
    /\ [](notifSeenKeys = StoredKeys(pendingNotifications))
    /\ [][(PushStep /\ resp'.run.key \notin StoredKeys(pendingNotifications)) =>
             /\ StoresNewRecord
             /\ Head(pendingNotifications').summary.unique_key = resp'.run.key
             /\ resp'.run.key \in notifSeenKeys']_vars

\* The event of ticket 7, the only one ever pushed, is stored for the second
\* or third time: its earlier record was evicted and its key forgotten
C23_Witness ==
    /\ resp.op \in PostOps
    /\ resp.run.created
    /\ DOMAIN ticketCache = {<<"7">>}
    /\ Len(pendingNotifications) = 1
    /\ pendingNotifications[1].id > 1
    /\ notifSeenKeys = {resp.run.key}

-----------------------------------------------------------------------------
(* The eviction of every record *)

\* The record with the given id is stored and holds the key k
StoredWithKey(id, k) ==
    \E n \in Live : n.id = id /\ n.summary.unique_key = k

(* C24: while time advances and the sweeper keeps running, every stored     *)
(* record, delivered or not, polled or never polled, is eventually removed  *)
(* from the store, and its key with it: the key is then seen only if        *)
(* another record holds it.                                                 *)
C24_EveryRecordEvicted ==
    \A id \in 1..MaxPushes :
        \A body \in SeenBodies :
            LET k == TicketSummary(body).unique_key
            IN StoredWithKey(id, k) ~>
                  (/\ id \notin IdsOf(pendingNotifications)
                   /\ k \in notifSeenKeys => k \in StoredKeys(pendingNotifications))

\* The sweeper has emptied a store of two records, one delivered and one
\* that no consumer ever got
C24_Witness ==
    /\ resp.op = "sweep"
    /\ nextId = 2
    /\ everDelivered = {1}
    /\ pendingNotifications = <<>>
    /\ notifSeenKeys = {}

-----------------------------------------------------------------------------
(* The pending flag *)

(* C25: in every reachable state every stored record, of a ticket event or  *)
(* of an inbound message with or without a cache entry, has is_pending true *)
(* exactly when its user_email is absent (null or empty).                   *)
C25_PendingIffNoUserEmail ==
    \A n \in Live : (n.summary.is_pending = TRUE) <=> Absent(n.summary.user_email)

\* The store holds the record of a ticket event whose e-mail is blank, hence
\* empty and pending, and the record of an inbound message that took its
\* user from the cache
C25_Witness ==
    /\ \E n \in Live : /\ n.summary.event = <<"TransferOfTicket">>
                       /\ n.summary.user_email = <<>>
                       /\ n.summary.is_pending = TRUE
    /\ \E n \in Live : /\ n.summary.event = <<"NewMessage">>
                       /\ n.summary.user_email = <<"a", "@", "x">>
                       /\ n.summary.is_pending = FALSE

-----------------------------------------------------------------------------
(* The entries of the reply set *)

DigitsOnly(s) == \A i \in 1..Len(s) : IsDigit(s[i])

(* C26: in every reachable state every entry of the reply set is a          *)
(* non-empty string of digits, whether a Tekzap NewMessage or a Meta        *)
(* message added it; a sender that normalizes to the empty string adds      *)
(* nothing.                                                                 *)
C26_RepliesAreNonEmptyDigits ==
    \A number \in pendingReplies : number # <<>> /\ DigitsOnly(number)

\* The part that holds: every entry consists of digits only, and a Tekzap
\* NewMessage adds nothing but a non-empty entry
C26_DigitsOnlyAndTekzapNonEmpty ==
    /\ [](\A number \in pendingReplies : DigitsOnly(number))
    /\ [][(ProcessStep /\ ~Falsy(resp'.body.event)) =>
             <<>> \notin pendingReplies' \ pendingReplies]_vars

====
